---- MODULE Spec2Model ----
(***************************************************************************)
(* Model of agent/main.py: the worker's prewarm function, the per-session  *)
(* entrypoint coroutine (cut at its await points), the room's              *)
(* participant_attributes_changed handler, the four speaking-state         *)
(* callbacks and the confirmation task the handler creates.                *)
(*                                                                         *)
(* Python dicts are functions whose DOMAIN is the set of keys present, so  *)
(* that `k in d`, d[k] (KeyError when absent) and d.get(k, default) are    *)
(* three different things, as in the source.                               *)
(***************************************************************************)
EXTENDS Integers, Sequences, FiniteSets, TLC

VARIABLES
    procState,          \* "boot" | "ready" | "crashed": the worker process
    userdata,           \* proc.userdata, a dict
    voices_status,      \* response.status_code of the voice-catalog fetch (0: none yet)
    kb_fetch,           \* "none" | "ok" | "failed": outcome of the knowledge-base fetch
    warnings,           \* what prewarm's logger.warning calls were about
    pc,                 \* where the entrypoint coroutine of the current session stands
    fault,              \* the exception that ended the entrypoint, or "none"
    tts,                \* tts._opts of the session's synthesis adapter
    is_user_speaking,   \* entrypoint local, line 115
    is_agent_speaking,  \* entrypoint local, line 116
    roomHandlers,       \* event names with a callback registered on ctx.room
    agentHandlers,      \* event names with a callback registered on the agent
    connected,          \* ctx.connect() has returned
    agentStarted,       \* agent.start(ctx.room) was called
    published,          \* the attributes set on the local participant, a dict
    greetings,          \* the texts the entrypoint passed to agent.say, in order
    tasks,              \* texts of the agent.say tasks created and not yet run
    agentTalking,       \* the framework's truth: the agent is playing out speech
    userTalking,        \* the framework's truth: the user is speaking
    evt                 \* the handler call that returned in the last step, or NoEvt

vars == <<procState, userdata, voices_status, kb_fetch, warnings, pc, fault, tts,
          is_user_speaking, is_agent_speaking, roomHandlers, agentHandlers,
          connected, agentStarted, published, greetings, tasks,
          agentTalking, userTalking, evt>>

(***************************************************************************)
(* Bounds of the model.                                                    *)
(***************************************************************************)
MaxCatalog == 1         \* longest voice catalog the fetch returns
MaxServices == 2        \* longest "services" list of the knowledge base
MaxTasks == 1           \* most confirmation tasks pending at once

(***************************************************************************)
(* Dicts.                                                                  *)
(***************************************************************************)
EmptyDict == [k \in {} |-> ""]

Has(d, k) == k \in DOMAIN d

\* d.get(k, default)
Get(d, k, default) == IF Has(d, k) THEN d[k] ELSE default

\* d[k] = v
Put(d, k, v) == [x \in (DOMAIN d) \cup {k} |-> IF x = k THEN v ELSE d[x]]

None == "None"

(***************************************************************************)
(* Voice descriptors: "id" and "name" always, "embedding" and "language"   *)
(* optional.                                                               *)
(***************************************************************************)
VoiceIds == {"v1"}
RequestIds == {"", "v1", "v2"}
Languages == {"en", "tl"}
Embedding == "embedding-vector"

\* display names, in the order str comparison gives them
NameOrder == <<"Ana", "Ben">>

MkVoice(id, name, emb, lang) ==
    LET a == Put(Put(EmptyDict, "id", id), "name", name)
        b == IF emb THEN Put(a, "embedding", Embedding) ELSE a
    IN  IF lang = None THEN b ELSE Put(b, "language", lang)

Voices ==
    {MkVoice(i, "Ana", e, l) : i \in VoiceIds, e \in BOOLEAN, l \in Languages \cup {None}}

SeqsUpTo(S, n) == UNION {[1..k -> S] : k \in 0..n}

\* two voices with different ids, and two voices with the same id
MixedCatalog == <<MkVoice("v1", "Ben", TRUE, "tl"), MkVoice("v2", "Ana", TRUE, "en")>>
DuplicateCatalog == <<MkVoice("v1", "Ana", FALSE, "tl"), MkVoice("v1", "Ana", TRUE, "tl")>>

Catalogs == SeqsUpTo(Voices, MaxCatalog) \cup {MixedCatalog, DuplicateCatalog}

(***************************************************************************)
(* Knowledge-base documents: a dict with an optional "services" list of    *)
(* service dicts, each with an optional "name", and possibly other keys.   *)
(***************************************************************************)
ServiceNames == {"Automation", "Web Apps"}

Services == {Put(EmptyDict, "name", n) : n \in ServiceNames}
                \cup {Put(EmptyDict, "price", "1")}

Documents(n) ==
    {EmptyDict, Put(EmptyDict, "pricing", "tbd")}
        \cup {Put(EmptyDict, "services", s) : s \in SeqsUpTo(Services, n)}

\* bool(d) of a dict
Truthy(d) == DOMAIN d # {}

(***************************************************************************)
(* Texts are sequences of pieces, so that the service names stay visible   *)
(* in a greeting.                                                          *)
(***************************************************************************)
GenericGreeting == <<"Hi there, how are you doing today?">>
Intro == "Hi there! I'm Alex, your Aitek PH assistant. Here to help you with services like "
Outro == ". How can I assist you today?"
Confirmation == <<"How do I sound now?">>
DefaultVoice == "248be419-c632-4f23-adf1-5324ed7dbf1d"

\* a join that drops the separator
JoinNoSeparator(sep, parts) == parts

\* sep.join(parts)
RECURSIVE Join(_, _)
Join(sep, parts) ==
    IF parts = <<>> THEN <<>>
    ELSE IF Len(parts) = 1 THEN <<parts[1]>>
    ELSE <<parts[1], sep>> \o Join(sep, Tail(parts))

\* line 109 raises KeyError when a service has no "name"
NamesFault(services) == \E i \in 1..Len(services) : ~Has(services[i], "name")

ServiceNamesOf(services) == [i \in 1..Len(services) |-> services[i]["name"]]

\* lines 107-112: the text of the first agent.say
FirstGreeting(knowledge_base) ==
    IF Truthy(knowledge_base)
    THEN <<Intro>> \o Join(", ", ServiceNamesOf(Get(knowledge_base, "services", <<>>)))
                   \o <<Outro>>
    ELSE GenericGreeting

FirstGreetingFault(knowledge_base) ==
    Truthy(knowledge_base) /\ NamesFault(Get(knowledge_base, "services", <<>>))

\* a second greeting that follows the knowledge base as the first does
SecondGreetingLikeFirst(knowledge_base) == FirstGreeting(knowledge_base)

\* line 181: the text of the second agent.say
SecondGreeting(knowledge_base) == GenericGreeting

(***************************************************************************)
(* prewarm                                                                 *)
(***************************************************************************)
HttpStatuses == {200, 401, 503}

\* lines 32-36: the key is set on status 200 only
StoreVoices(ud, status, body) ==
    IF status = 200 THEN Put(ud, "cartesia_voices", body) ELSE ud

\* lines 40-46: the key is set unless the fetch raised a RequestException
StoreKnowledgeBase(ud, fetched, document) ==
    IF fetched THEN Put(ud, "knowledge_base", document) ELSE ud

Prewarm(catalogs, documents) ==
    /\ procState = "boot"
    /\ \E status \in HttpStatuses, body \in catalogs,
          fetched \in BOOLEAN, document \in documents :
          /\ userdata' = StoreKnowledgeBase(
                             StoreVoices(Put(userdata, "vad", "silero"), status, body),
                             fetched, document)
          /\ voices_status' = status
          /\ kb_fetch' = IF fetched THEN "ok" ELSE "failed"
          /\ warnings' = (IF status = 200 THEN {} ELSE {"voices"})
                           \cup (IF fetched THEN {} ELSE {"knowledge_base"})
    /\ procState' = "ready"
    /\ UNCHANGED <<pc, fault, tts, is_user_speaking, is_agent_speaking, roomHandlers,
                   agentHandlers, connected, agentStarted, published, greetings, tasks,
                   agentTalking, userTalking, evt>>

\* line 32: requests.get raises (no connection); nothing catches it
PrewarmCrash ==
    /\ procState = "boot"
    /\ procState' = "crashed"
    /\ userdata' = Put(userdata, "vad", "silero")
    /\ UNCHANGED <<voices_status, kb_fetch, warnings, pc, fault, tts, is_user_speaking,
                   is_agent_speaking, roomHandlers, agentHandlers, connected,
                   agentStarted, published, greetings, tasks, agentTalking,
                   userTalking, evt>>

(***************************************************************************)
(* entrypoint, cut at its awaits                                           *)
(***************************************************************************)
NoOpts == [voice |-> None, model |-> None, language |-> None]

\* lines 95-97: cartesia.TTS(voice=...) with the adapter's default model and language
NewTts == [voice |-> DefaultVoice, model |-> "sonic-english", language |-> "en"]

NoEvt == [kind |-> "none", changed |-> EmptyDict, attributes |-> EmptyDict, log |-> <<>>]

SpeakingEvents == {"agent_started_speaking", "agent_stopped_speaking",
                   "user_started_speaking", "user_stopped_speaking"}

\* a read that tolerates the missing key: userdata.get("cartesia_voices", [])
VoicesFaultNever(ud) == FALSE

\* line 93: ctx.proc.userdata["cartesia_voices"] raises KeyError when the key is absent
VoicesFault(ud) == ~Has(ud, "cartesia_voices")

\* what a new job starts from
FreshSession ==
    /\ is_user_speaking' = FALSE
    /\ is_agent_speaking' = FALSE
    /\ roomHandlers' = {}
    /\ agentHandlers' = {}
    /\ connected' = FALSE
    /\ agentStarted' = FALSE
    /\ published' = EmptyDict
    /\ tasks' = <<>>
    /\ agentTalking' = FALSE
    /\ userTalking' = FALSE
    /\ evt' = NoEvt

\* lines 51-112, up to the await of the first agent.say
EntrypointBegin ==
    /\ procState = "ready"
    /\ pc \in {"idle", "done", "failed"}
    /\ FreshSession
    /\ IF VoicesFault(userdata)
       THEN /\ pc' = "failed"
            /\ fault' = "KeyError: 'cartesia_voices'"
            /\ tts' = NoOpts
            /\ greetings' = <<>>
       ELSE IF FirstGreetingFault(Get(userdata, "knowledge_base", EmptyDict))
       THEN /\ pc' = "failed"
            /\ fault' = "KeyError: 'name'"
            /\ tts' = NewTts
            /\ greetings' = <<>>
       ELSE /\ pc' = "greeting1"
            /\ fault' = "none"
            /\ tts' = NewTts
            /\ greetings' = <<FirstGreeting(Get(userdata, "knowledge_base", EmptyDict))>>
    /\ UNCHANGED <<procState, userdata, voices_status, kb_fetch, warnings>>

\* lines 115-154: the first say returned; flags, the room handler, the call of connect
EntrypointRegister ==
    /\ pc = "greeting1"
    /\ pc' = "connecting"
    /\ is_user_speaking' = FALSE
    /\ is_agent_speaking' = FALSE
    /\ roomHandlers' = roomHandlers \cup {"participant_attributes_changed"}
    /\ evt' = NoEvt
    /\ UNCHANGED <<procState, userdata, voices_status, kb_fetch, warnings, fault, tts,
                   agentHandlers, connected, agentStarted, published, greetings, tasks,
                   agentTalking, userTalking>>

\* a < b for display names
NameBefore(a, b) ==
    \E i, j \in 1..Len(NameOrder) : NameOrder[i] = a /\ NameOrder[j] = b /\ i < j

\* one step of list.sort(key=name): v goes behind every entry whose name is not greater
RECURSIVE InsertByName(_, _)
InsertByName(sorted, v) ==
    IF sorted = <<>> THEN <<v>>
    ELSE IF NameBefore(v["name"], sorted[1]["name"]) THEN <<v>> \o sorted
    ELSE <<sorted[1]>> \o InsertByName(Tail(sorted), v)

RECURSIVE SortByName(_)
SortByName(list) ==
    IF list = <<>> THEN <<>>
    ELSE InsertByName(SortByName(SubSeq(list, 1, Len(list) - 1)), list[Len(list)])

\* lines 176-178: the value json.dumps encodes, the {id, name} pairs sorted by name
VoiceList(cartesia_voices) ==
    SortByName([i \in 1..Len(cartesia_voices) |->
                   [id |-> cartesia_voices[i]["id"], name |-> cartesia_voices[i]["name"]]])

\* lines 156-178: connect returned; the four callbacks, the call of set_attributes
EntrypointConnected ==
    /\ pc = "connecting"
    /\ pc' = "publishing"
    /\ connected' = TRUE
    /\ agentHandlers' = agentHandlers \cup SpeakingEvents
    /\ published' = Put(published, "voices", VoiceList(userdata["cartesia_voices"]))
    /\ evt' = NoEvt
    /\ UNCHANGED <<procState, userdata, voices_status, kb_fetch, warnings, fault, tts,
                   is_user_speaking, is_agent_speaking, roomHandlers, agentStarted,
                   greetings, tasks, agentTalking, userTalking>>

\* lines 180-181: set_attributes returned; agent.start and the second say
EntrypointStart ==
    /\ pc = "publishing"
    /\ pc' = "greeting2"
    /\ agentStarted' = TRUE
    /\ greetings' = Append(greetings,
                           SecondGreeting(Get(userdata, "knowledge_base", EmptyDict)))
    /\ evt' = NoEvt
    /\ UNCHANGED <<procState, userdata, voices_status, kb_fetch, warnings, fault, tts,
                   is_user_speaking, is_agent_speaking, roomHandlers, agentHandlers,
                   connected, published, tasks, agentTalking, userTalking>>

\* line 181: the second say returned and the coroutine ends
EntrypointEnd ==
    /\ pc = "greeting2"
    /\ pc' = "done"
    /\ evt' = NoEvt
    /\ UNCHANGED <<procState, userdata, voices_status, kb_fetch, warnings, fault, tts,
                   is_user_speaking, is_agent_speaking, roomHandlers, agentHandlers,
                   connected, agentStarted, published, greetings, tasks, agentTalking,
                   userTalking>>

(***************************************************************************)
(* on_participant_attributes_changed                                       *)
(***************************************************************************)
ParticipantKinds == {"STANDARD", "AGENT"}

\* the dicts an event carries: no "voice" key, or "voice" mapped to an identifier
AttributeDicts == {EmptyDict} \cup {Put(EmptyDict, "voice", v) : v \in RequestIds}

\* the identifier read from the event's changed attributes instead
RequestedVoiceFromChanged(changed_attributes, attributes) ==
    Get(changed_attributes, "voice", None)

\* line 127: the identifier is read from the participant's attributes
RequestedVoice(changed_attributes, attributes) == Get(attributes, "voice", None)

\* `not voice_id`, line 131
Falsy(voice_id) == voice_id = None \/ voice_id = ""

\* a lookup that falls back to the first voice when none matches
LookupVoiceOrFirst(cartesia_voices, voice_id) ==
    IF \E i \in 1..Len(cartesia_voices) : cartesia_voices[i]["id"] = voice_id
    THEN CHOOSE i \in 1..Len(cartesia_voices) :
             /\ cartesia_voices[i]["id"] = voice_id
             /\ \A j \in 1..(i - 1) : cartesia_voices[j]["id"] # voice_id
    ELSE IF cartesia_voices # <<>> THEN 1 ELSE 0

\* lines 134-136: the position of the first entry with that id, 0 when there is none
LookupVoice(cartesia_voices, voice_id) ==
    IF \E i \in 1..Len(cartesia_voices) : cartesia_voices[i]["id"] = voice_id
    THEN CHOOSE i \in 1..Len(cartesia_voices) :
             /\ cartesia_voices[i]["id"] = voice_id
             /\ \A j \in 1..(i - 1) : cartesia_voices[j]["id"] # voice_id
    ELSE 0

\* the multilingual model for every voice that declares a language
SelectModelAnyLanguage(voice_data) ==
    IF Has(voice_data, "language") THEN "sonic-multilingual" ELSE "sonic-english"

\* the language left at "en"
SelectLanguageEn(voice_data) == "en"

\* lines 141-145
SelectLanguage(voice_data) ==
    IF Has(voice_data, "language") /\ voice_data["language"] # "en"
    THEN voice_data["language"]
    ELSE "en"

SelectModel(voice_data) ==
    IF Has(voice_data, "language") /\ voice_data["language"] # "en"
    THEN "sonic-multilingual"
    ELSE "sonic-english"

\* the model left as the adapter was built with
WriteOptsKeepModel(voice_data) ==
    [voice |-> voice_data["embedding"],
     model |-> "sonic-english",
     language |-> SelectLanguage(voice_data)]

\* lines 146-148
WriteOpts(voice_data) ==
    [voice |-> voice_data["embedding"],
     model |-> SelectModel(voice_data),
     language |-> SelectLanguage(voice_data)]

\* only the agent's flag is looked at
ShouldConfirmAgentOnly(agent_speaking, user_speaking) == ~agent_speaking

\* line 149
ShouldConfirm(agent_speaking, user_speaking) == ~(agent_speaking \/ user_speaking)

\* the handler's early returns: how far a call gets
Outcome(kind, changed_attributes, attributes, cartesia_voices) ==
    LET voice_id == RequestedVoice(changed_attributes, attributes)
        found == LookupVoice(cartesia_voices, voice_id)
    IN  IF kind # "STANDARD" THEN "ignored"
        ELSE IF ~Has(changed_attributes, "voice") THEN "no_voice_key"
        ELSE IF Falsy(voice_id) THEN "empty"
        ELSE IF found = 0 THEN "not_found"
        ELSE IF ~Has(cartesia_voices[found], "embedding") THEN "no_embedding"
        ELSE "switched"

\* lines 128 and 138: the levels the handler logs at
HandlerLog(outcome) ==
    IF outcome \in {"ignored", "no_voice_key"} THEN <<>>
    ELSE IF outcome = "not_found" THEN <<"info", "warning">>
    ELSE <<"info">>

ParticipantAttributesChanged ==
    /\ "participant_attributes_changed" \in roomHandlers
    /\ \E kind \in ParticipantKinds, changed_attributes \in AttributeDicts,
          attributes \in AttributeDicts :
          LET cartesia_voices == userdata["cartesia_voices"]
              outcome == Outcome(kind, changed_attributes, attributes, cartesia_voices)
              voice_data == cartesia_voices[LookupVoice(cartesia_voices,
                                RequestedVoice(changed_attributes, attributes))]
              confirm == /\ outcome = "switched"
                         /\ ShouldConfirm(is_agent_speaking, is_user_speaking)
          IN  /\ confirm => Len(tasks) < MaxTasks
              /\ tts' = IF outcome = "switched" THEN WriteOpts(voice_data) ELSE tts
              /\ tasks' = IF confirm THEN Append(tasks, Confirmation) ELSE tasks
              /\ evt' = [kind |-> kind, changed |-> changed_attributes,
                         attributes |-> attributes, log |-> HandlerLog(outcome)]
    /\ UNCHANGED <<procState, userdata, voices_status, kb_fetch, warnings, pc, fault,
                   is_user_speaking, is_agent_speaking, roomHandlers, agentHandlers,
                   connected, agentStarted, published, greetings, agentTalking,
                   userTalking>>

\* lines 150-152: a created task runs agent.say
ConfirmationTask ==
    /\ tasks # <<>>
    /\ tasks' = Tail(tasks)
    /\ evt' = NoEvt
    /\ UNCHANGED <<procState, userdata, voices_status, kb_fetch, warnings, pc, fault, tts,
                   is_user_speaking, is_agent_speaking, roomHandlers, agentHandlers,
                   connected, agentStarted, published, greetings, agentTalking,
                   userTalking>>

(***************************************************************************)
(* The agent's speaking events.  The framework emits them when the agent   *)
(* or the user starts or stops talking; a callback runs only if one is     *)
(* registered for the event at that moment.                                *)
(***************************************************************************)
AgentExists == pc \in {"greeting1", "connecting", "publishing", "greeting2", "done"}

\* lines 156-159
AgentStartedSpeaking ==
    /\ AgentExists /\ ~agentTalking
    /\ agentTalking' = TRUE
    /\ is_agent_speaking' =
           IF "agent_started_speaking" \in agentHandlers THEN TRUE ELSE is_agent_speaking
    /\ evt' = NoEvt
    /\ UNCHANGED <<procState, userdata, voices_status, kb_fetch, warnings, pc, fault, tts,
                   is_user_speaking, roomHandlers, agentHandlers, connected,
                   agentStarted, published, greetings, tasks, userTalking>>

\* lines 161-164
AgentStoppedSpeaking ==
    /\ AgentExists /\ agentTalking
    /\ agentTalking' = FALSE
    /\ is_agent_speaking' =
           IF "agent_stopped_speaking" \in agentHandlers THEN FALSE ELSE is_agent_speaking
    /\ evt' = NoEvt
    /\ UNCHANGED <<procState, userdata, voices_status, kb_fetch, warnings, pc, fault, tts,
                   is_user_speaking, roomHandlers, agentHandlers, connected,
                   agentStarted, published, greetings, tasks, userTalking>>

\* lines 166-169
UserStartedSpeaking ==
    /\ AgentExists /\ ~userTalking
    /\ userTalking' = TRUE
    /\ is_user_speaking' =
           IF "user_started_speaking" \in agentHandlers THEN TRUE ELSE is_user_speaking
    /\ evt' = NoEvt
    /\ UNCHANGED <<procState, userdata, voices_status, kb_fetch, warnings, pc, fault, tts,
                   is_agent_speaking, roomHandlers, agentHandlers, connected,
                   agentStarted, published, greetings, tasks, agentTalking>>

\* lines 171-174
UserStoppedSpeaking ==
    /\ AgentExists /\ userTalking
    /\ userTalking' = FALSE
    /\ is_user_speaking' =
           IF "user_stopped_speaking" \in agentHandlers THEN FALSE ELSE is_user_speaking
    /\ evt' = NoEvt
    /\ UNCHANGED <<procState, userdata, voices_status, kb_fetch, warnings, pc, fault, tts,
                   is_agent_speaking, roomHandlers, agentHandlers, connected,
                   agentStarted, published, greetings, tasks, agentTalking>>

(***************************************************************************)
(* Specifications                                                          *)
(***************************************************************************)
Init ==
    /\ procState = "boot"
    /\ userdata = EmptyDict
    /\ voices_status = 0
    /\ kb_fetch = "none"
    /\ warnings = {}
    /\ pc = "idle"
    /\ fault = "none"
    /\ tts = NoOpts
    /\ is_user_speaking = FALSE
    /\ is_agent_speaking = FALSE
    /\ roomHandlers = {}
    /\ agentHandlers = {}
    /\ connected = FALSE
    /\ agentStarted = FALSE
    /\ published = EmptyDict
    /\ greetings = <<>>
    /\ tasks = <<>>
    /\ agentTalking = FALSE
    /\ userTalking = FALSE
    /\ evt = NoEvt

Session ==
    \/ PrewarmCrash
    \/ EntrypointBegin
    \/ EntrypointRegister
    \/ EntrypointConnected
    \/ EntrypointStart
    \/ EntrypointEnd
    \/ ParticipantAttributesChanged
    \/ ConfirmationTask
    \/ AgentStartedSpeaking
    \/ AgentStoppedSpeaking
    \/ UserStartedSpeaking
    \/ UserStoppedSpeaking

SampleCatalog == <<MkVoice("v1", "Ana", TRUE, "tl")>>
SampleDocument == Put(EmptyDict, "services", <<Put(EmptyDict, "name", "Automation")>>)

\* every voice catalog up to MaxCatalog; the knowledge base is missing or the sample
Next == Prewarm(Catalogs, {SampleDocument}) \/ Session

Spec == Init /\ [][Next]_vars

\* every knowledge base up to MaxServices; the voice catalog is the sample
NextGreeting == Prewarm({SampleCatalog}, Documents(MaxServices)) \/ Session

SpecGreeting == Init /\ [][NextGreeting]_vars

(***************************************************************************)
(* Vocabulary of the properties.  A handler call is described by what it   *)
(* was given (evt) and by the catalog, without the handler's own lookup.   *)
(***************************************************************************)
SessionVoices == userdata["cartesia_voices"]

HandlerRan == evt.kind # "none"

\* a standard participant changed "voice"
VoiceChange(e) == e.kind = "STANDARD" /\ Has(e.changed, "voice")

\* the catalog has no entry with that id
Unknown(id) == \A k \in 1..Len(SessionVoices) : SessionVoices[k]["id"] # id

\* entry k of the catalog is the one a request for id selects
Selects(id, k) ==
    /\ id # None /\ id # ""
    /\ k \in 1..Len(SessionVoices)
    /\ SessionVoices[k]["id"] = id
    /\ \A j \in 1..(k - 1) : SessionVoices[j]["id"] # id

\* the identifier the participant's attributes carry
AttributeVoice(e) == IF Has(e.attributes, "voice") THEN e.attributes["voice"] ELSE None

\* the last step was a voice change that selected entry k
Selected(k) == VoiceChange(evt) /\ Selects(AttributeVoice(evt), k)

NonEnglish(voice) == Has(voice, "language") /\ voice["language"] # "en"

SessionState == <<procState, userdata, voices_status, kb_fetch, warnings, pc, fault,
                  is_user_speaking, is_agent_speaking, roomHandlers, agentHandlers,
                  connected, agentStarted, published, greetings, agentTalking,
                  userTalking>>

C2_EnglishVoice ==
    \A k \in 1..Len(Get(userdata, "cartesia_voices", <<>>)) :
        (/\ Selected(k)
         /\ Has(SessionVoices[k], "embedding")
         /\ ~NonEnglish(SessionVoices[k]))
            => tts.model = "sonic-english" /\ tts.language = "en"

\* the voice with language "en" was selected
C2_Witness ==
    /\ Has(userdata, "cartesia_voices")
    /\ SessionVoices = MixedCatalog
    /\ Selected(2)
    /\ tts.voice = Embedding
    /\ tts.model = "sonic-english"

(***************************************************************************)
(* C3 as stated.  After a voice change that selects an entry whose         *)
(* language is not "en", the model is "sonic-multilingual" and the         *)
(* language is the entry's.                                                *)
(***************************************************************************)
C3_AnyNonEnglishVoice ==
    \A k \in 1..Len(Get(userdata, "cartesia_voices", <<>>)) :
        (Selected(k) /\ NonEnglish(SessionVoices[k]))
            => /\ tts.model = "sonic-multilingual"
               /\ tts.language = SessionVoices[k]["language"]

(***************************************************************************)
(* C3 amended.  The same, for an entry that also has an embedding.         *)
(***************************************************************************)
C3_NonEnglishVoice ==
    \A k \in 1..Len(Get(userdata, "cartesia_voices", <<>>)) :
        (/\ Selected(k)
         /\ Has(SessionVoices[k], "embedding")
         /\ NonEnglish(SessionVoices[k]))
            => /\ tts.model = "sonic-multilingual"
               /\ tts.language = SessionVoices[k]["language"]

\* the voice with language "tl" was selected
C3_Witness ==
    /\ Has(userdata, "cartesia_voices")
    /\ \E k \in 1..Len(SessionVoices) :
          /\ Selected(k)
          /\ Has(SessionVoices[k], "embedding")
          /\ NonEnglish(SessionVoices[k])
    /\ tts.voice = Embedding
    /\ tts.language = "tl"

(***************************************************************************)
(* C4.  When the voice-catalog fetch returned a status other than 200, the *)
(* "cartesia_voices" key is absent from userdata and every entrypoint run  *)
(* ends with a KeyError on that key: no greeting was said, no callback     *)
(* registered, the room not connected, and no empty catalog stands in.     *)
(***************************************************************************)
C4_NoCatalogNoSession ==
    (procState = "ready" /\ voices_status # 200)
        => /\ ~Has(userdata, "cartesia_voices")
           /\ pc \in {"idle", "failed"}
           /\ pc = "failed" => fault = "KeyError: 'cartesia_voices'"
           /\ greetings = <<>>
           /\ roomHandlers = {} /\ agentHandlers = {}
           /\ ~connected /\ ~agentStarted
           /\ tts = NoOpts

\* the fetch returned 503 and an entrypoint has run and failed
C4_Witness ==
    /\ voices_status = 503
    /\ "voices" \in warnings
    /\ pc = "failed"
    /\ fault = "KeyError: 'cartesia_voices'"

(***************************************************************************)
(* C5.  The first greeting of a session is the generic greeting when the   *)
(* knowledge-base fetch failed; when it succeeded with a document whose    *)
(* services all have names, the greeting contains those names in the       *)
(* document's order with ", " between neighbours.                          *)
(***************************************************************************)
Contains(text, part) ==
    \E k \in 0..(Len(text) - Len(part)) :
        \A i \in 1..Len(part) : text[k + i] = part[i]

\* names[1], ", ", names[2], ", ", ..., names[N]
CommaJoined(names) ==
    [i \in 1..(IF names = <<>> THEN 0 ELSE 2 * Len(names) - 1) |->
        IF i % 2 = 1 THEN names[(i + 1) \div 2] ELSE ", "]

NamedServices(document) ==
    /\ Has(document, "services")
    /\ \A i \in 1..Len(document["services"]) : Has(document["services"][i], "name")

C5_FirstGreeting ==
    greetings # <<>> =>
        /\ kb_fetch = "failed" => greetings[1] = GenericGreeting
        /\ (kb_fetch = "ok" /\ NamedServices(userdata["knowledge_base"])) =>
               LET services == userdata["knowledge_base"]["services"]
                   names == [i \in 1..Len(services) |-> services[i]["name"]]
               IN  /\ Contains(greetings[1], CommaJoined(names))
                   /\ names # <<>> => greetings[1] # GenericGreeting

\* two differently named services were fetched and the first greeting was said
C5_Witness ==
    /\ greetings # <<>>
    /\ kb_fetch = "ok"
    /\ NamedServices(userdata["knowledge_base"])
    /\ Len(userdata["knowledge_base"]["services"]) = 2
    /\ userdata["knowledge_base"]["services"][1] # userdata["knowledge_base"]["services"][2]

(***************************************************************************)
(* C7.  An entrypoint that runs to its end has said exactly two greetings: *)
(* the first while the room was not yet connected, the second after the    *)
(* agent was started, and the second is the generic greeting whatever the  *)
(* first was.                                                              *)
(***************************************************************************)
C7_TwoGreetings ==
    /\ pc = "greeting1" => Len(greetings) = 1 /\ ~connected /\ ~agentStarted
    /\ pc \in {"connecting", "publishing"} => Len(greetings) = 1 /\ ~agentStarted
    /\ Len(greetings) = 2 => connected /\ agentStarted
    /\ pc \in {"greeting2", "done"} =>
           /\ Len(greetings) = 2
           /\ greetings[2] = GenericGreeting

\* a finished entrypoint whose first greeting named the services
C7_Witness ==
    /\ pc = "done"
    /\ Len(greetings) = 2
    /\ greetings[1] # GenericGreeting
    /\ greetings[2] = GenericGreeting

(***************************************************************************)
(* C6 as stated.  When a standard participant's voice change finds the     *)
(* requested voice in the catalog, the handler creates the task that says  *)
(* "How do I sound now?" if and only if neither speaking flag is set when  *)
(* it runs.                                                                *)
(***************************************************************************)
Found(e) == VoiceChange(e) /\ \E k \in 1..Len(SessionVoices) : Selects(AttributeVoice(e), k)

FoundWithEmbedding(e) ==
    /\ VoiceChange(e)
    /\ \E k \in 1..Len(SessionVoices) :
          Selects(AttributeVoice(e), k) /\ Has(SessionVoices[k], "embedding")

C6_ConfirmWhenFound ==
    [][ Found(evt')
          => /\ (tasks' = Append(tasks, Confirmation))
                    <=> (~is_user_speaking /\ ~is_agent_speaking)
             /\ tasks' \in {tasks, Append(tasks, Confirmation)} ]_vars

(***************************************************************************)
(* C6 amended.  The same, for a requested voice that is found and has an   *)
(* embedding; the task is left pending when the handler returns.           *)
(***************************************************************************)
C6_ConfirmWhenSwitched ==
    [][ FoundWithEmbedding(evt')
          => /\ (tasks' = Append(tasks, Confirmation))
                    <=> (~is_user_speaking /\ ~is_agent_speaking)
             /\ tasks' \in {tasks, Append(tasks, Confirmation)} ]_vars

\* a switch with both flags clear has left the confirmation pending
C6_Witness ==
    /\ FoundWithEmbedding(evt)
    /\ ~is_user_speaking /\ ~is_agent_speaking
    /\ tasks = << <<"How do I sound now?">> >>

(***************************************************************************)
(* C8 as stated.  After a standard participant's event whose               *)
(* changed_attributes map "voice" to v, the catalog having an entry with   *)
(* id v, an embedding and a language L other than "en", and neither flag   *)
(* being set: the model is "sonic-multilingual", the language is L and a   *)
(* confirmation task is pending.                                           *)
(***************************************************************************)
C8_ChangedAttributeVoice ==
    (/\ VoiceChange(evt)
     /\ ~is_user_speaking /\ ~is_agent_speaking)
        => \A k \in 1..Len(SessionVoices) :
               (/\ SessionVoices[k]["id"] = evt.changed["voice"]
                /\ Has(SessionVoices[k], "embedding")
                /\ NonEnglish(SessionVoices[k]))
                   => /\ tts.model = "sonic-multilingual"
                      /\ tts.language = SessionVoices[k]["language"]
                      /\ tasks # <<>>

(***************************************************************************)
(* C8 amended.  The identifier is the non-empty one the participant's      *)
(* attributes map "voice" to, the event's changed_attributes only having   *)
(* the key, and the entry is the first of the catalog with that id.        *)
(***************************************************************************)
C8_ParticipantAttributeVoice ==
    (/\ VoiceChange(evt)
     /\ ~is_user_speaking /\ ~is_agent_speaking)
        => \A k \in 1..Len(SessionVoices) :
               (/\ Selects(AttributeVoice(evt), k)
                /\ Has(SessionVoices[k], "embedding")
                /\ NonEnglish(SessionVoices[k]))
                   => /\ tts.model = "sonic-multilingual"
                      /\ tts.language = SessionVoices[k]["language"]
                      /\ tts.voice = SessionVoices[k]["embedding"]
                      /\ tasks # <<>>
                      /\ tasks[Len(tasks)] = Confirmation

\* the attributes named "v1" while changed_attributes carried another value
C8_Witness ==
    /\ VoiceChange(evt)
    /\ ~is_user_speaking /\ ~is_agent_speaking
    /\ AttributeVoice(evt) = "v1"
    /\ evt.changed["voice"] # "v1"
    /\ Selects("v1", 1)
    /\ Has(SessionVoices[1], "embedding")
    /\ NonEnglish(SessionVoices[1])
    /\ tts.language = "tl"
    /\ tasks # <<>>

(***************************************************************************)
(* C9.  Whenever the voice-change handler runs, is_agent_speaking and      *)
(* is_user_speaking equal what the agent and the user are really doing,    *)
(* and so it never creates a confirmation task while either is talking.    *)
(***************************************************************************)
C9_NoConfirmationWhileTalking ==
    [][ (evt'.kind # "none" /\ Len(tasks') > Len(tasks))
          => /\ is_agent_speaking = agentTalking /\ ~agentTalking
             /\ is_user_speaking = userTalking /\ ~userTalking ]_vars

(***************************************************************************)
(* C10.  The adapter's model and language stay paired: multilingual        *)
(* exactly with a language other than "en", english exactly with "en".     *)
(* A handler call writes voice, model and language together, from the      *)
(* selected entry when it has an embedding, and otherwise none of them.    *)
(***************************************************************************)
Paired(opts) ==
    \/ opts = NoOpts
    \/ /\ opts.model \in {"sonic-english", "sonic-multilingual"}
       /\ opts.model = "sonic-multilingual" <=> opts.language # "en"
       /\ opts.model = "sonic-english" <=> opts.language = "en"

====
